---- MODULE Spec2Model ----
(***************************************************************************)
(* Model of collector/src/utils/fs.rs: rename (unix and windows builds),   *)
(* touch, touch_all, get_file_count_and_size and robocopy.                 *)
(*                                                                         *)
(* A filesystem is a function from paths to nodes.  A path is a sequence   *)
(* of components, a component (a file name) is a sequence of characters,   *)
(* so that file_name(), extension() and components() are computed as       *)
(* std::path::Path computes them.                                          *)
(*                                                                         *)
(* An entry is a directory, a regular file or an entry of another kind     *)
(* that is not followed (is_dir and is_file are both false on it).  The    *)
(* modification time of an entry is "before" until set_file_mtime sets it  *)
(* to "now".  What the operating system and the external utilities do is   *)
(* nondeterministic: every call that can fail may fail, mv and robocopy    *)
(* may stop anywhere and exit with any of their statuses.                  *)
(*                                                                         *)
(* Three specifications, one per entry point: SpecMove (rename),           *)
(* SpecTouch (touch_all), SpecStats (get_file_count_and_size).             *)
(***************************************************************************)
EXTENDS Integers, Sequences, FiniteSets, TLC

VARIABLES
    fs,        \* the filesystem: path -> [kind, size, mtime]
    fs0,       \* the filesystem when the call was made (never changes)
    args,      \* the arguments of the call
    platform,  \* "unix" or "windows": which cfg(...) build runs
    fault,     \* paths on which read_dir / metadata fails (get_file_count_and_size)
    pc,        \* position of the call
    stack,     \* walkdir's stack of directory iterators (touch_all)
    log,       \* what the call has done so far, in order
    result     \* what the call returned (Pending while it runs)

vars == <<fs, fs0, args, platform, fault, pc, stack, log, result>>

----------------------------------------------------------------------------
(* Bounds of the model *)

\* entries under the root of a tree walked by touch_all
MaxEntries == 3
\* entries under the root of a tree measured by get_file_count_and_size
MaxStatEntries == 3
\* largest file length, in bytes
MaxSize == 2
\* entries under the root of a tree moved by rename
MaxMoveEntries == 2

----------------------------------------------------------------------------
(* Option<T>, Result<T, E> *)

None == <<>>
Some(x) == <<x>>

Ok(v) == [ok |-> TRUE, val |-> v]
\* an error: its root cause, the contexts added to it (outermost first) and
\* the path it is about
Err(kind, ctx, at) == [ok |-> FALSE, kind |-> kind, ctx |-> ctx, at |-> at]
Unit == "()"
\* the value of `result` while the call has not returned
Pending == [ok |-> FALSE, kind |-> "pending", ctx |-> <<>>, at |-> <<>>]

\* anyhow's with_context: an error gets the context in front of its chain
with_context(r, ctx) == IF r.ok THEN r ELSE Err(r.kind, <<ctx>> \o r.ctx, r.at)

----------------------------------------------------------------------------
(* File names *)

N_w == <<"w">>
N_src == <<"s", "r", "c">>
N_target == <<"t", "a", "r", "g", "e", "t">>
N_targets == <<"t", "a", "r", "g", "e", "t", "s">>
N_rs == <<"r", "s">>
N_a_rs == <<"a", ".", "r", "s">>
N_dot_rs == <<".", "r", "s">>
N_g_rs == <<"g", ".", "r", "s">>
N_a_txt == <<"a", ".", "t", "x", "t">>
N_build_rs == <<"b", "u", "i", "l", "d", ".", "r", "s">>
N_CMakeCache_txt == <<"C", "M", "a", "k", "e", "C", "a", "c", "h", "e", ".", "t", "x", "t">>
N_from == <<"f", "r", "o", "m">>
N_to == <<"t", "o">>

----------------------------------------------------------------------------
(* std::path::Path *)

\* Path::file_name: the last component (every path of the model ends in a
\* normal component)
file_name(path) == IF Len(path) = 0 THEN None ELSE Some(path[Len(path)])

\* index of the last '.' of a name, 0 when it has none
LastDot(name) ==
    IF \E i \in 1..Len(name) : name[i] = "."
    THEN CHOOSE i \in 1..Len(name) :
            /\ name[i] = "."
            /\ \A j \in (i+1)..Len(name) : name[j] # "."
    ELSE 0

\* Path::extension: the part of the file name after its last '.', None when
\* there is no '.' or when the only '.' is the first character
extension(path) ==
    IF file_name(path) = None THEN None
    ELSE LET name == file_name(path)[1]
             d == LastDot(name)
         IN  IF d <= 1 THEN None ELSE Some(SubSeq(name, d + 1, Len(name)))

\* Path::components, every component a Component::Normal
components(path) == {path[i] : i \in 1..Len(path)}

----------------------------------------------------------------------------
(* The filesystem *)

Node(kind, size) == [kind |-> kind, size |-> size, mtime |-> "before"]

exists(f, path) == path \in DOMAIN f
is_dir(f, path) == exists(f, path) /\ f[path].kind = "dir"
is_file(f, path) == exists(f, path) /\ f[path].kind = "file"

IsPrefix(p, q) == Len(p) <= Len(q) /\ SubSeq(q, 1, Len(p)) = p
Parent(p) == SubSeq(p, 1, Len(p) - 1)

\* fs::read_dir: the direct children of a directory
read_dir(f, path) == {q \in DOMAIN f : Len(q) = Len(path) + 1 /\ Parent(q) = path}

\* every entry at or under path
Subtree(f, path) == {q \in DOMAIN f : IsPrefix(path, q)}

\* candidate entries of a tree, relative to its root
Entry(rel, kind) == [rel |-> rel, kind |-> kind]

Candidates ==
    { Entry(<<N_src>>, "dir"),
      Entry(<<N_target>>, "dir"),
      Entry(<<N_targets>>, "dir"),
      Entry(<<N_g_rs>>, "dir"),
      Entry(<<N_CMakeCache_txt>>, "dir"),
      Entry(<<N_CMakeCache_txt>>, "file"),
      Entry(<<N_a_rs>>, "file"),
      Entry(<<N_a_rs>>, "other"),
      Entry(<<N_build_rs>>, "file"),
      Entry(<<N_dot_rs>>, "file"),
      Entry(<<N_rs>>, "file"),
      Entry(<<N_a_txt>>, "file"),
      Entry(<<N_src, N_a_rs>>, "file"),
      Entry(<<N_src, N_build_rs>>, "file"),
      Entry(<<N_src, N_CMakeCache_txt>>, "file"),
      Entry(<<N_src, N_target>>, "dir"),
      Entry(<<N_src, N_target, N_a_rs>>, "file"),
      Entry(<<N_target, N_a_rs>>, "file"),
      Entry(<<N_target, N_CMakeCache_txt>>, "file"),
      Entry(<<N_targets, N_a_rs>>, "file"),
      Entry(<<N_g_rs, N_a_rs>>, "file") }

\* a set of candidates is a tree when no two share a path and every entry's
\* parent is the root or a directory of the set
WellFormed(S) ==
    /\ \A c, d \in S : c.rel = d.rel => c = d
    /\ \A c \in S : Len(c.rel) > 1 => Entry(Parent(c.rel), "dir") \in S

RECURSIVE SubsetsUpTo(_, _)
SubsetsUpTo(S, n) ==
    IF n = 0 THEN {{}}
    ELSE LET smaller == SubsetsUpTo(S, n - 1)
         IN  smaller \cup {T \cup {c} : T \in smaller, c \in S}

TreeShapes(n) == {S \in SubsetsUpTo(Candidates, n) : WellFormed(S)}

\* the filesystem holding the directory `root` with the entries S; sz gives
\* every regular file its length
MkTree(root, S, sz) ==
    [p \in {root} \cup {root \o c.rel : c \in S} |->
        IF p = root THEN Node("dir", 0)
        ELSE LET c == CHOOSE c \in S : root \o c.rel = p
             IN  Node(c.kind, IF c.kind = "file" THEN sz[c.rel] ELSE 0)]

\* the filesystem holding only `root`, a regular file or another kind of entry
MkLeaf(root, kind, size) == [p \in {root} |-> Node(kind, size)]

----------------------------------------------------------------------------
(* get_file_count_and_size *)

RECURSIVE SumOver(_, _)
SumOver(S, g) ==
    IF S = {} THEN 0
    ELSE LET x == CHOOSE x \in S : TRUE
         IN  g[x] + SumOver(S \ {x}, g)

\* a directory counted as a file of length 0
RECURSIVE get_file_count_and_size_dir_counted(_, _, _)
get_file_count_and_size_dir_counted(f, bad, path) ==
    IF is_dir(f, path) THEN
        IF path \in bad THEN Err("io", <<>>, path)
        ELSE LET r == [c \in read_dir(f, path) |->
                          get_file_count_and_size_dir_counted(f, bad, c)]
             IN  IF \E c \in DOMAIN r : ~r[c].ok
                 THEN r[CHOOSE c \in DOMAIN r : ~r[c].ok]
                 ELSE Ok(<<1 + SumOver(DOMAIN r, [c \in DOMAIN r |-> r[c].val[1]]),
                           SumOver(DOMAIN r, [c \in DOMAIN r |-> r[c].val[2]])>>)
    ELSE IF is_file(f, path) THEN
        IF path \in bad THEN Err("io", <<>>, path) ELSE Ok(<<1, f[path].size>>)
    ELSE Ok(<<0, 0>>)

\* Returns Ok(<<file_count, size>>), or the I/O error of the first read_dir or
\* metadata call that fails (`bad`: the paths on which they fail)
RECURSIVE get_file_count_and_size(_, _, _)
get_file_count_and_size(f, bad, path) ==
    IF is_dir(f, path) THEN
        IF path \in bad THEN Err("io", <<>>, path)
        ELSE LET r == [c \in read_dir(f, path) |->
                          get_file_count_and_size(f, bad, c)]
             IN  IF \E c \in DOMAIN r : ~r[c].ok
                 THEN r[CHOOSE c \in DOMAIN r : ~r[c].ok]
                 ELSE Ok(<<SumOver(DOMAIN r, [c \in DOMAIN r |-> r[c].val[1]]),
                           SumOver(DOMAIN r, [c \in DOMAIN r |-> r[c].val[2]])>>)
    ELSE IF is_file(f, path) THEN
        IF path \in bad THEN Err("io", <<>>, path) ELSE Ok(<<1, f[path].size>>)
    ELSE Ok(<<0, 0>>)

FileSizes(S) == [S -> 0..MaxSize]
FilesOf(S) == {c.rel : c \in {d \in S : d.kind = "file"}}

StatRoot == <<N_w>>

\* the trees get_file_count_and_size is called on: a directory tree, a lone
\* regular file, a lone entry of another kind, or a path that does not exist
InitStats ==
    /\ \/ \E T \in TreeShapes(MaxStatEntries) :
            \E sz \in FileSizes(FilesOf(T)) :
                fs = MkTree(StatRoot, T, sz)
       \/ \E n \in 0..MaxSize : fs = MkLeaf(StatRoot, "file", n)
       \/ fs = MkLeaf(StatRoot, "other", 0)
       \/ fs = MkLeaf(<<N_src>>, "dir", 0)
    /\ fs0 = fs
    /\ args = [path |-> StatRoot]
    /\ platform = "unix"
    /\ fault \in {{}} \cup {{p} : p \in DOMAIN fs}
    /\ pc = "call"
    /\ stack = <<>>
    /\ log = <<>>
    /\ result = Pending

\* the call get_file_count_and_size(path) returns a count and a size
StatsReturnOk ==
    /\ pc = "call"
    /\ get_file_count_and_size(fs, fault, args.path).ok
    /\ result' = get_file_count_and_size(fs, fault, args.path)
    /\ pc' = "done"
    /\ UNCHANGED <<fs, fs0, args, platform, fault, stack, log>>

\* the call get_file_count_and_size(path) returns an I/O error
StatsReturnErr ==
    /\ pc = "call"
    /\ ~get_file_count_and_size(fs, fault, args.path).ok
    /\ result' = get_file_count_and_size(fs, fault, args.path)
    /\ pc' = "done"
    /\ UNCHANGED <<fs, fs0, args, platform, fault, stack, log>>

NextStats == StatsReturnOk \/ StatsReturnErr

SpecStats == InitStats /\ [][NextStats]_vars

----------------------------------------------------------------------------
(* touch, touch_all *)

\* fs::remove_file
remove_file(f, path) == [q \in DOMAIN f \ {path} |-> f[q]]

\* filetime::set_file_mtime(path, FileTime::now())
set_file_mtime(f, path) == [f EXCEPT ![path].mtime = "now"]

\* touch: Ok(()) with the modification time reset, or the error of
\* set_file_mtime with its context
touch(f, path, io_ok) ==
    IF io_ok /\ exists(f, path)
    THEN [fs |-> set_file_mtime(f, path), result |-> Ok(Unit)]
    ELSE [fs |-> f,
          result |-> with_context(Err("io", <<>>, path), "touching file")]

\* only a leading `target` component excludes the path
is_valid_leading_target_only(path) ==
    IF Len(path) > 0 /\ path[1] = N_target THEN FALSE
    ELSE IF extension(path) # None /\ extension(path) = Some(N_rs)
         THEN file_name(path) # Some(N_build_rs)
         ELSE FALSE

\* build scripts are not excluded
is_valid_build_script_included(path) ==
    IF N_target \in components(path) THEN FALSE
    ELSE extension(path) # None /\ extension(path) = Some(N_rs)

is_valid(path) ==
    IF N_target \in components(path) THEN FALSE
    ELSE IF extension(path) # None /\ extension(path) = Some(N_rs)
         THEN file_name(path) # Some(N_build_rs)
         ELSE FALSE

Op(op, path, ok) == [op |-> op, path |-> path, ok |-> ok]

\* the cmake cache is deleted only where files are touched: not under target
touch_all_entry_cache_kept_in_target(f, lg, path, rm_ok, touch_ok) ==
    LET is_cache == file_name(path) = Some(N_CMakeCache_txt)
                    /\ N_target \notin components(path)
        removed == rm_ok /\ exists(f, path) /\ ~is_dir(f, path)
        f1 == IF is_cache /\ removed THEN remove_file(f, path) ELSE f
        lg1 == IF is_cache THEN Append(lg, Op("delete", path, removed)) ELSE lg
    IN  IF is_cache /\ ~removed
        THEN [fs |-> f, log |-> lg1,
              result |-> Err("io", <<"deleting cmake caches">>, path)]
        ELSE IF is_valid(path)
        THEN LET t == touch(f1, path, touch_ok)
             IN  [fs |-> t.fs,
                  log |-> Append(lg1, Op("touch", path, t.result.ok)),
                  result |-> IF t.result.ok THEN Pending ELSE t.result]
        ELSE [fs |-> f1, log |-> lg1, result |-> Pending]

\* a failed touch is dropped and the walk goes on
touch_all_entry_touch_error_ignored(f, lg, path, rm_ok, touch_ok) ==
    LET is_cache == file_name(path) = Some(N_CMakeCache_txt)
        removed == rm_ok /\ exists(f, path) /\ ~is_dir(f, path)
        f1 == IF is_cache /\ removed THEN remove_file(f, path) ELSE f
        lg1 == IF is_cache THEN Append(lg, Op("delete", path, removed)) ELSE lg
    IN  IF is_cache /\ ~removed
        THEN [fs |-> f, log |-> lg1,
              result |-> Err("io", <<"deleting cmake caches">>, path)]
        ELSE IF is_valid(path)
        THEN LET t == touch(f1, path, touch_ok)
             IN  [fs |-> t.fs,
                  log |-> Append(lg1, Op("touch", path, t.result.ok)),
                  result |-> Pending]
        ELSE [fs |-> f1, log |-> lg1, result |-> Pending]

\* One iteration of touch_all's loop on the entry `path`.  rm_ok and
\* touch_ok say whether the operating system lets remove_file and
\* set_file_mtime succeed; remove_file never succeeds on a directory.
\* result stays Pending when the loop goes on to the next entry.
touch_all_entry(f, lg, path, rm_ok, touch_ok) ==
    LET is_cache == file_name(path) = Some(N_CMakeCache_txt)
        removed == rm_ok /\ exists(f, path) /\ ~is_dir(f, path)
        f1 == IF is_cache /\ removed THEN remove_file(f, path) ELSE f
        lg1 == IF is_cache THEN Append(lg, Op("delete", path, removed)) ELSE lg
    IN  IF is_cache /\ ~removed
        THEN [fs |-> f, log |-> lg1,
              result |-> Err("io", <<"deleting cmake caches">>, path)]
        ELSE IF is_valid(path)
        THEN LET t == touch(f1, path, touch_ok)
             IN  [fs |-> t.fs,
                  log |-> Append(lg1, Op("touch", path, t.result.ok)),
                  result |-> IF t.result.ok THEN Pending ELSE t.result]
        ELSE [fs |-> f1, log |-> lg1, result |-> Pending]

\* walkdir: drop the exhausted directory iterators from the top of the stack
RECURSIVE Exhaust(_)
Exhaust(st) ==
    IF st = <<>> THEN st
    ELSE IF st[Len(st)] = {} THEN Exhaust(SubSeq(st, 1, Len(st) - 1))
    ELSE st

\* walkdir: the entry `path` has been yielded from the iterator on top of the
\* stack; a directory's own iterator is pushed, so its contents come next
Descend(st, f, path) ==
    LET top == Len(st)
        rest == [st EXCEPT ![top] = st[top] \ {path}]
    IN  Exhaust(IF is_dir(f, path) THEN Append(rest, read_dir(f, path)) ELSE rest)

TouchRoots == {<<N_w>>, <<N_target, N_w>>, <<N_g_rs>>}

InitTouch ==
    /\ \/ \E root \in TouchRoots : \E T \in TreeShapes(MaxEntries) :
             /\ fs = MkTree(root, T, [r \in FilesOf(T) |-> 1])
             /\ args = [path |-> root]
       \/ \E name \in {N_a_rs, N_build_rs, N_CMakeCache_txt} :
             /\ fs = MkLeaf(<<N_w, name>>, "file", 1)
             /\ args = [path |-> <<N_w, name>>]
    /\ fs0 = fs
    /\ platform = "unix"
    /\ fault = {}
    /\ pc = "walk"
    /\ stack = << {args.path} >>
    /\ log = <<>>
    /\ result = Pending

\* the walk yields an entry and the loop body runs on it without error
TouchAllEntry ==
    /\ pc = "walk"
    /\ stack # <<>>
    /\ \E path \in stack[Len(stack)] : \E rm_ok, touch_ok \in BOOLEAN :
         LET out == touch_all_entry(fs, log, path, rm_ok, touch_ok)
         IN  /\ out.result = Pending
             /\ fs' = out.fs
             /\ log' = out.log
             /\ stack' = Descend(stack, out.fs, path)
    /\ UNCHANGED <<fs0, args, platform, fault, pc, result>>

\* the walk yields an entry and remove_file or touch fails on it: touch_all
\* returns that error
TouchAllEntryFails ==
    /\ pc = "walk"
    /\ stack # <<>>
    /\ \E path \in stack[Len(stack)] : \E rm_ok, touch_ok \in BOOLEAN :
         LET out == touch_all_entry(fs, log, path, rm_ok, touch_ok)
         IN  /\ out.result # Pending
             /\ fs' = out.fs
             /\ log' = out.log
             /\ result' = out.result
    /\ pc' = "done"
    /\ UNCHANGED <<fs0, args, platform, fault, stack>>

\* the walk itself yields an error (`entry?`): touch_all returns it
TouchAllWalkError ==
    /\ pc = "walk"
    /\ stack # <<>>
    /\ result' = Err("walkdir", <<>>, <<>>)
    /\ pc' = "done"
    /\ UNCHANGED <<fs, fs0, args, platform, fault, stack, log>>

\* the walk is over: touch_all returns Ok(())
TouchAllReturn ==
    /\ pc = "walk"
    /\ stack = <<>>
    /\ result' = Ok(Unit)
    /\ pc' = "done"
    /\ UNCHANGED <<fs, fs0, args, platform, fault, stack, log>>

NextTouch ==
    \/ TouchAllEntry
    \/ TouchAllEntryFails
    \/ TouchAllWalkError
    \/ TouchAllReturn

SpecTouch == InitTouch /\ [][NextTouch]_vars

----------------------------------------------------------------------------
(* rename, robocopy *)

\* the path of `path`, an entry at or under `from`, once moved to `to`
Rebase(path, from, to) == to \o SubSeq(path, Len(from) + 1, Len(path))

\* the filesystem after the tree at `from` has been moved to `to` as a whole:
\* what fs::rename does when it succeeds, and mv and robocopy /move when they
\* report success
Moved(f, from, to) ==
    LET src == Subtree(f, from)
        dst == {Rebase(p, from, to) : p \in src}
    IN  [q \in (DOMAIN f \ src) \cup dst |->
            IF q \in dst
            THEN f[CHOOSE p \in src : Rebase(p, from, to) = q]
            ELSE f[q]]

\* the filesystem in which the entries `copied` of the tree at `from` are at
\* `to` and the entries `left` of it are still at `from`
PartlyMoved(f, from, to, copied, left) ==
    LET src == Subtree(f, from)
        dst == {Rebase(p, from, to) : p \in copied}
    IN  [q \in ((DOMAIN f \ src) \cup left) \cup dst |->
            IF q \in dst
            THEN f[CHOOSE p \in copied : Rebase(p, from, to) = q]
            ELSE f[q]]

\* the sets of entries of the tree at `from` that form a tree themselves
SubTrees(f, from) ==
    {K \in SUBSET Subtree(f, from) :
        \A p \in K : p # from => Parent(p) \in K}

\* what mv can leave behind when it exits with a failure status: it copies
\* the tree and then removes the source, and stops where it fails
MvFailureStates(f, from, to) ==
    LET all == Subtree(f, from)
    IN  {PartlyMoved(f, from, to, K, all) : K \in SubTrees(f, from)}
        \cup {PartlyMoved(f, from, to, all, L) : L \in SubTrees(f, from) \ {{}}}

\* what robocopy /move can leave behind when it does not complete: it moves
\* entry by entry, so every entry is at the source or at the destination
RobocopyFailureStates(f, from, to) ==
    LET all == Subtree(f, from)
    IN  {PartlyMoved(f, from, to, KL[1], KL[2]) :
            KL \in {X \in SubTrees(f, from) \X (SubTrees(f, from) \ {{}}) :
                        X[1] \cup X[2] = all}}

\* std::process::ExitStatus::success (unix): the process exited with code 0
success(status) == status = Some(0)

\* Option<i32>'s ordering: None is less than every Some
OptGE(a, b) ==
    IF a = None THEN b = None
    ELSE IF b = None THEN TRUE
    ELSE a[1] >= b[1]

\* the exit statuses of mv: exit codes 0 and 1, or killed by a signal (no code)
MvStatuses == {Some(0), Some(1), None}

\* the exit statuses of robocopy, as ExitStatus::code() gives them on Windows
\* (the process's 32-bit exit code as an i32): robocopy's own codes, and
\* 0xC0000005, the code of a process ended by an access violation
RobocopyStatuses == {Some(0), Some(1), Some(7), Some(8), Some(16), Some(-1073741819)}

Ev(ev, status) == [ev |-> ev, status |-> status]

\* crate::run_command_with_output: the command's output and exit status, or
\* an error when the process cannot be started
run_command_with_output(spawn_ok, status) ==
    IF spawn_ok THEN Ok(status)
    ELSE Err("spawn", <<>>, <<>>)

\* robocopy(from, to, extra_args)
robocopy(spawn_ok, status) ==
    LET output == run_command_with_output(spawn_ok, status)
    IN  IF ~output.ok THEN output
        ELSE IF OptGE(output.val, Some(8))
        THEN Err("expected success", <<>>, <<>>)
        ELSE Ok(Unit)

\* every source, a regular file too, is handed to robocopy
windows_renames_in_place_never(f, from) == FALSE

\* fs::metadata(from)?.is_file(): the windows build moves a regular file with
\* fs::rename alone
windows_renames_in_place(f, from) == is_file(f, from)

\* rename (windows): what it returns, given whether fs::metadata and
\* fs::rename succeed and what robocopy returns
rename_windows(f, from, metadata_ok, rename_ok, robocopy_result) ==
    IF ~metadata_ok THEN Err("io", <<>>, from)
    ELSE IF windows_renames_in_place(f, from)
    THEN with_context(IF rename_ok THEN Ok(Unit) ELSE Err("io", <<>>, from),
                      "renaming file")
    ELSE with_context(robocopy_result, "renaming file")

\* rename (unix): what it returns, given whether fs::rename succeeds, whether
\* mv can be started and the status it exits with
rename_unix(from, rename_ok, spawn_ok, status) ==
    IF ~rename_ok
    THEN IF ~spawn_ok THEN with_context(Err("io", <<>>, from), "mv")
         ELSE IF ~success(status) THEN Err("exit status", <<>>, from)
         ELSE Ok(Unit)
    ELSE Ok(Unit)

MoveFrom == <<N_from>>
MoveTo == <<N_to>>

\* rename is called on a directory tree or on a regular file; `to` does not
\* exist
InitMove ==
    /\ \/ \E T \in TreeShapes(MaxMoveEntries) :
            \E sz \in FileSizes(FilesOf(T)) :
                fs = MkTree(MoveFrom, T, sz)
       \/ \E n \in 0..MaxSize : fs = MkLeaf(MoveFrom, "file", n)
    /\ fs0 = fs
    /\ args = [from |-> MoveFrom, to |-> MoveTo]
    /\ platform \in {"unix", "windows"}
    /\ fault = {}
    /\ pc = "start"
    /\ stack = <<>>
    /\ log = <<>>
    /\ result = Pending

\* unix: fs::rename succeeds, rename returns Ok(())
UnixRenameInPlace ==
    /\ pc = "start" /\ platform = "unix"
    /\ fs' = Moved(fs, args.from, args.to)
    /\ log' = Append(log, Ev("rename ok", None))
    /\ result' = rename_unix(args.from, TRUE, TRUE, None)
    /\ pc' = "done"
    /\ UNCHANGED <<fs0, args, platform, fault, stack>>

\* unix: fs::rename fails, rename goes on to run mv
UnixRenameInPlaceFails ==
    /\ pc = "start" /\ platform = "unix"
    /\ log' = Append(log, Ev("rename failed", None))
    /\ pc' = "fallback"
    /\ UNCHANGED <<fs, fs0, args, platform, fault, stack, result>>

\* unix: mv cannot be started, rename returns the error of status()
MvNotStarted ==
    /\ pc = "fallback" /\ platform = "unix"
    /\ log' = Append(log, Ev("spawn failed", None))
    /\ result' = rename_unix(args.from, FALSE, FALSE, None)
    /\ pc' = "done"
    /\ UNCHANGED <<fs, fs0, args, platform, fault, stack>>

\* unix: mv runs and exits; rename returns by its status
MvExits ==
    /\ pc = "fallback" /\ platform = "unix"
    /\ \E status \in MvStatuses :
         /\ IF success(status)
            THEN fs' = Moved(fs, args.from, args.to)
            ELSE fs' \in MvFailureStates(fs, args.from, args.to)
         /\ log' = log \o <<Ev("spawned", None), Ev("exited", status)>>
         /\ result' = rename_unix(args.from, FALSE, TRUE, status)
    /\ pc' = "done"
    /\ UNCHANGED <<fs0, args, platform, fault, stack>>

\* windows: fs::metadata(from) fails, rename returns its error
WindowsMetadataFails ==
    /\ pc = "start" /\ platform = "windows"
    /\ log' = Append(log, Ev("metadata failed", None))
    /\ result' = rename_windows(fs, args.from, FALSE, FALSE, Ok(Unit))
    /\ pc' = "done"
    /\ UNCHANGED <<fs, fs0, args, platform, fault, stack>>

\* windows: `from` is a regular file and fs::rename succeeds
WindowsRenameInPlace ==
    /\ pc = "start" /\ platform = "windows"
    /\ windows_renames_in_place(fs, args.from)
    /\ fs' = Moved(fs, args.from, args.to)
    /\ log' = Append(log, Ev("rename ok", None))
    /\ result' = rename_windows(fs, args.from, TRUE, TRUE, Ok(Unit))
    /\ pc' = "done"
    /\ UNCHANGED <<fs0, args, platform, fault, stack>>

\* windows: `from` is a regular file and fs::rename fails
WindowsRenameInPlaceFails ==
    /\ pc = "start" /\ platform = "windows"
    /\ windows_renames_in_place(fs, args.from)
    /\ log' = Append(log, Ev("rename failed", None))
    /\ result' = rename_windows(fs, args.from, TRUE, FALSE, Ok(Unit))
    /\ pc' = "done"
    /\ UNCHANGED <<fs, fs0, args, platform, fault, stack>>

\* windows: `from` is not a regular file and robocopy cannot be started
RobocopyNotStarted ==
    /\ pc = "start" /\ platform = "windows"
    /\ ~windows_renames_in_place(fs, args.from)
    /\ log' = Append(log, Ev("spawn failed", None))
    /\ result' = rename_windows(fs, args.from, TRUE, FALSE, robocopy(FALSE, None))
    /\ pc' = "done"
    /\ UNCHANGED <<fs, fs0, args, platform, fault, stack>>

\* windows: `from` is not a regular file, robocopy runs and exits.  It has
\* moved the whole tree when its code is one of 0..7, and not otherwise.
RobocopyExits ==
    /\ pc = "start" /\ platform = "windows"
    /\ ~windows_renames_in_place(fs, args.from)
    /\ \E status \in RobocopyStatuses :
         /\ IF status[1] \in 0..7
            THEN fs' = Moved(fs, args.from, args.to)
            ELSE fs' \in RobocopyFailureStates(fs, args.from, args.to)
         /\ log' = log \o <<Ev("spawned", None), Ev("exited", status)>>
         /\ result' = rename_windows(fs, args.from, TRUE, FALSE, robocopy(TRUE, status))
    /\ pc' = "done"
    /\ UNCHANGED <<fs0, args, platform, fault, stack>>

NextMove ==
    \/ UnixRenameInPlace
    \/ UnixRenameInPlaceFails
    \/ MvNotStarted
    \/ MvExits
    \/ WindowsMetadataFails
    \/ WindowsRenameInPlace
    \/ WindowsRenameInPlaceFails
    \/ RobocopyNotStarted
    \/ RobocopyExits

SpecMove == InitMove /\ [][NextMove]_vars

----------------------------------------------------------------------------
(* Claims about touch_all, checked under SpecTouch *)

HasTargetComponent(p) == \E i \in 1..Len(p) : p[i] = N_target
HasRsExtension(p) ==
    LET name == p[Len(p)]
    IN  /\ Len(name) > 3
        /\ SubSeq(name, Len(name) - 2, Len(name)) = <<".", "r", "s">>
Kept(p) == p \in DOMAIN fs /\ fs[p] = fs0[p]
Touched(p) == p \in DOMAIN fs /\ fs[p].mtime # fs0[p].mtime
Deleted(p) == p \notin DOMAIN fs
Returned == pc = "done"
ReturnedOk == pc = "done" /\ result.ok
ReturnedErr == pc = "done" /\ ~result.ok

C4_BuildScriptNeverTouched ==
    \A p \in DOMAIN fs0 : p[Len(p)] = N_build_rs => ~Touched(p)

\* C4 witness: touch_all returned Ok(()) on a tree with a regular file
\* build.rs below a subdirectory, outside any target directory, which it left
\* alone, while it touched a .rs file beside it.
C4_Witness ==
    /\ ReturnedOk
    /\ \E p \in DOMAIN fs0 :
          /\ p[Len(p)] = N_build_rs /\ ~HasTargetComponent(p)
          /\ Len(p) > Len(args.path) + 1
          /\ fs0[p].kind = "file" /\ Kept(p)
          /\ \E q \in DOMAIN fs0 : Parent(q) = Parent(p) /\ Touched(q)

\* C5: when touch_all has returned Ok(()), no entry named CMakeCache.txt is
\* left at or under the root: each one was deleted, also under a target
\* directory and also in a directory where no file was touched.
C5_NoCacheLeftOnSuccess ==
    ReturnedOk =>
        /\ \A p \in DOMAIN fs0 : p[Len(p)] = N_CMakeCache_txt => Deleted(p)
        /\ \A p \in DOMAIN fs : p[Len(p)] # N_CMakeCache_txt

\* C5 witness: touch_all returned Ok(()) on a tree whose only CMakeCache.txt
\* was in a target directory; it is gone and no entry of the tree was touched.
C5_Witness ==
    /\ ReturnedOk
    /\ \E p \in DOMAIN fs0 :
          /\ p[Len(p)] = N_CMakeCache_txt /\ HasTargetComponent(p)
          /\ Deleted(p)
    /\ \A q \in DOMAIN fs0 : ~Touched(q)

\* C7: when touch_all has returned Ok(()), the entries whose modification
\* time was reset are exactly the regular files with extension rs, not named
\* build.rs, with no "target" component in their path; directories, entries
\* of other kinds and every other file keep their modification time.
C7_TouchedExactlyRegularSources ==
    ReturnedOk =>
        \A p \in DOMAIN fs0 :
            Touched(p) <=>
                /\ fs0[p].kind = "file"
                /\ HasRsExtension(p)
                /\ p[Len(p)] # N_build_rs
                /\ ~HasTargetComponent(p)

\* the operation of the log that failed, if any
Failures == {i \in 1..Len(log) : ~log[i].ok}
\* the entries the walk has not yielded yet
NotYetVisited ==
    UNION {Subtree(fs0, p) : p \in UNION {stack[i] : i \in 1..Len(stack)}}

\* C8: in touch_all a failed remove_file or touch is the last thing the call
\* does: it is never followed by another operation nor tried again, the call
\* has returned the error of that entry, and every entry the walk had not
\* visited yet is as it was before the call.  Whatever changed in the tree
\* was changed by an operation that succeeded.
C8_FailureEndsTheWalk ==
    /\ \A i \in Failures :
          /\ i = Len(log)
          /\ ReturnedErr
          /\ result.at = log[i].path
          /\ result.ctx = (IF log[i].op = "delete"
                            THEN <<"deleting cmake caches">>
                            ELSE <<"touching file">>)
          /\ \A p \in NotYetVisited : Kept(p)
    /\ \A i, j \in 1..Len(log) :
          i # j => ~(log[i].op = log[j].op /\ log[i].path = log[j].path)
    /\ \A p \in DOMAIN fs0 :
          /\ Deleted(p) => \E i \in 1..Len(log) : log[i] = Op("delete", p, TRUE)
          /\ Touched(p) => \E i \in 1..Len(log) : log[i] = Op("touch", p, TRUE)
          /\ Deleted(p) \/ Touched(p) \/ Kept(p)

\* C8 witness: touch_all returned the error of a failed touch after it had
\* touched another file, and left an entry it would have touched unvisited.
C8_Witness ==
    /\ ReturnedErr
    /\ Len(log) >= 2
    /\ log[Len(log)].op = "touch" /\ ~log[Len(log)].ok
    /\ log[1].ok
    /\ \E p \in NotYetVisited :
          p # log[Len(log)].path /\ is_valid(p) /\ Kept(p)

----------------------------------------------------------------------------
(* Claims about get_file_count_and_size, checked under SpecStats *)

RegularFiles(f, path) == {q \in Subtree(f, path) : f[q].kind = "file"}
Directories(f, path) == {q \in Subtree(f, path) : f[q].kind = "dir"}

\* C6: get_file_count_and_size on a tree with N regular files of lengths
\* s1..sN, at any depth, returns Ok((N, s1 + ... + sN)) unless a read_dir or
\* metadata call fails; it never returns another pair: each regular file is
\* counted once, directories and entries of other kinds add nothing.
C6_CountAndSizeOfRegularFiles ==
    LET files == RegularFiles(fs, args.path)
        expected == <<Cardinality(files),
                      SumOver(files, [q \in files |-> fs[q].size])>>
    IN  Returned =>
            /\ result.ok => result.val = expected
            /\ fault = {} => result.ok

\* C6 witness: the call returned Ok on a tree with two regular files of
\* different non-zero lengths, one in a subdirectory and one directly under
\* the root.
C6_Witness ==
    /\ ReturnedOk
    /\ \E p, q \in RegularFiles(fs, args.path) :
          /\ Len(p) = Len(args.path) + 2
          /\ Len(q) = Len(args.path) + 1
          /\ fs[p].size > 0 /\ fs[q].size > fs[p].size
    /\ Cardinality(Directories(fs, args.path)) >= 2

----------------------------------------------------------------------------
(* Claims about rename, checked under SpecMove *)

SourceEntries == Subtree(fs0, args.from)
\* every entry of the source tree is at the destination, as it was
DestinationFull ==
    \A p \in SourceEntries :
        LET q == Rebase(p, args.from, args.to)
        IN  q \in DOMAIN fs /\ fs[q] = fs0[p]
DestinationAbsent == Subtree(fs, args.to) = {}
SourceAbsent == Subtree(fs, args.from) = {}
SourceIntact == \A p \in SourceEntries : p \in DOMAIN fs /\ fs[p] = fs0[p]

Happened(ev) == \E i \in 1..Len(log) : log[i].ev = ev
Before(ev1, ev2) ==
    \A i \in 1..Len(log) :
        log[i].ev = ev2 => \E j \in 1..(i - 1) : log[j].ev = ev1
ExitStatus == log[CHOOSE i \in 1..Len(log) : log[i].ev = "exited"].status

\* a status with which the utility reports that it failed: for mv any status
\* but exit code 0, for robocopy any code outside 0..7
FailureStatus(status) ==
    IF platform = "unix" THEN status # Some(0) ELSE status[1] \notin 0..7

\* C1: when rename has returned, either it returned Ok(()) with every entry
\* of the source tree at the destination and nothing left at the source, or
\* it returned an error with the source tree as it was; the destination is
\* never left partly populated.
C1_AllOrNothing ==
    Returned =>
        /\ \/ result.ok /\ DestinationFull /\ SourceAbsent
           \/ ~result.ok /\ SourceIntact
        /\ DestinationFull \/ DestinationAbsent

\* C2: when rename has returned Ok(()), `from` no longer exists and
\* get_file_count_and_size(to) is what get_file_count_and_size(from) was
\* before the call.
C2_SuccessPreservesStats ==
    ReturnedOk =>
        /\ args.from \notin DOMAIN fs
        /\ get_file_count_and_size(fs, {}, args.to)
             = get_file_count_and_size(fs0, {}, args.from)

\* C9: when rename has returned after the utility could not be started, it
\* returned an error whose cause is the failed start; when it has returned
\* after the utility ran and exited with a failure status, it returned an
\* error of another cause; it returned Ok(()) in neither case.
C9_LaunchAndExitErrorsDistinct ==
    Returned =>
        /\ Happened("spawn failed") =>
              ~result.ok /\ result.kind \in {"io", "spawn"}
        /\ (Happened("exited") /\ FailureStatus(ExitStatus)) =>
              ~result.ok /\ result.kind \in {"exit status", "expected success"}

\* C10 as claimed: on every platform, for files and for directories, the
\* utility is started only after an fs::rename that failed, and after an
\* fs::rename that succeeded rename returns Ok(()) with no utility started.
C10_RenameAlwaysFirst ==
    /\ Before("rename failed", "spawned")
    /\ Before("rename failed", "spawn failed")
    /\ Happened("rename ok") =>
          /\ ~Happened("spawned") /\ ~Happened("spawn failed")
          /\ Returned /\ result.ok

\* C10 as amended: the unix build tries fs::rename first and starts mv only
\* after it failed.  The windows build tries fs::rename only when `from` is
\* a regular file, and then starts no utility whether it succeeds or fails;
\* for anything else it starts robocopy without trying fs::rename.  On both,
\* after an fs::rename that succeeded rename returns Ok(()) with no utility
\* started.
C10_RenameFirstOnUnixFilesOnlyOnWindows ==
    LET renamed == Happened("rename ok") \/ Happened("rename failed")
        started == Happened("spawned") \/ Happened("spawn failed")
    IN  /\ platform = "unix" =>
              /\ Before("rename failed", "spawned")
              /\ Before("rename failed", "spawn failed")
        /\ platform = "windows" =>
              /\ renamed => fs0[args.from].kind = "file" /\ ~started
              /\ started => fs0[args.from].kind # "file" /\ ~renamed
        /\ Happened("rename ok") => ~started /\ Returned /\ result.ok

\* C10 witness: the windows build moved a directory with robocopy, which
\* exited with a success code, and never called fs::rename.
C10_Witness ==
    /\ platform = "windows"
    /\ ReturnedOk
    /\ fs0[args.from].kind = "dir"
    /\ Happened("exited")
    /\ ~Happened("rename ok") /\ ~Happened("rename failed")
    /\ DestinationFull /\ SourceAbsent
    /\ Cardinality(SourceEntries) > 1

====
